---------------------------- MODULE Spec2Model ----------------------------
(***************************************************************************)
(* A model of skyfield/timescales.py: the JulianDate value type, its lazy  *)
(* time-scale attributes, the leap-second table and the calendar functions.*)
(*                                                                         *)
(* Number representation.  The source computes with floats holding Julian  *)
(* dates in days.  The model computes exactly, in fixed point:             *)
(*   - a duration is an integer number of ticks, one tick being half a     *)
(*     millisecond (the source's _half_millisecond);                       *)
(*   - a Julian date x is the pair <<floor(x), ticks of the fractional     *)
(*     day>>, so 2441499.5 is <<2441499, TicksPerDay \div 2>>;             *)
(*   - float('-inf') and float('inf') are the pairs NegInf and PosInf,     *)
(*     which absorb every addition, as IEEE infinities do.                 *)
(* Floating-point rounding error is therefore not part of the model.       *)
(*                                                                         *)
(* Scope.  Instants are scalars (shape ()), utc= is given as a tuple, and   *)
(* the matrix attributes P, PT, N, NT, M, MT are left out.                  *)
(***************************************************************************)
EXTENDS Integers, Sequences, FiniteSets, TLC

VARIABLES
    leapsec,   \* the lines of leapsec.dat held by the cache: <<date, offset>>
    phase,     \* "new" | "live" | "raised": before / after JulianDate.__init__
    args,      \* the keyword arguments __init__ was called with
    utc,       \* instance attribute utc   (None when not in the instance dict)
    tai,       \* instance attribute tai
    tt,        \* instance attribute tt
    tdb,       \* instance attribute tdb
    ut1,       \* instance attribute ut1
    delta_t,   \* instance attribute delta_t
    op,        \* the last operation performed on the instance
    ret,       \* what that operation returned (or the exception it raised)
    lk,        \* the table-lookup harness: table, query, index, offset
    cal,       \* the calendar harness: arguments and result
    pc,        \* per thread: position inside its operation
    prog,      \* per thread: the operation it runs
    loc        \* per thread: the value it has computed and not yet stored

vars == <<leapsec, phase, args, utc, tai, tt, tdb, ut1, delta_t, op, ret,
          lk, cal, pc, prog, loc>>

\* Python's None, and an attribute missing from the instance dict
None == <<>>

----------------------------------------------------------------------------
(* Units *)

DAY_S == 86400
_half_millisecond == 1
_half_second == 1000
tt_minus_tai == 64368

TicksPerSecond == 2 * _half_second
TicksPerMinute == 60 * TicksPerSecond
TicksPerHour   == 60 * TicksPerMinute
TicksPerDay    == DAY_S * TicksPerSecond

----------------------------------------------------------------------------
(* Float arithmetic on Julian dates *)

NegInf == <<-2147483647, 0>>
PosInf == <<2147483647, 0>>
IsInf(x) == x[1] = NegInf[1] \/ x[1] = PosInf[1]

JD(w, f) == <<w + (f \div TicksPerDay), f % TicksPerDay>>
Whole(n) == <<n, 0>>

\* x + n ticks
Plus(x, n) == IF IsInf(x) THEN x ELSE JD(x[1], x[2] + n)
\* x + n whole days
PlusDays(x, n) == IF IsInf(x) THEN x ELSE <<x[1] + n, x[2]>>

Lt(x, y)  == x[1] < y[1] \/ (x[1] = y[1] /\ x[2] < y[2])
Leq(x, y) == x[1] < y[1] \/ (x[1] = y[1] /\ x[2] <= y[2])

\* <<q, r>> with a * f = q * TicksPerDay + r, computed by doubling so that no
\* intermediate value leaves the 32-bit range.
RECURSIVE MulDivMod(_, _)
MulDivMod(a, f) ==
    IF a = 0 THEN <<0, 0>>
    ELSE LET h == MulDivMod(a \div 2, f)
             r == 2 * h[2] + (a % 2) * f
         IN  <<2 * h[1] + (r \div TicksPerDay), r % TicksPerDay>>

\* Python's a * x // b for a float x and positive integers a, b.
MulFloorDiv(a, x, b) == (a * x[1] + MulDivMod(a, x[2])[1]) \div b

----------------------------------------------------------------------------
(* Calendar functions *)

\* A variant whose January/February test is off by one month.
julian_date_janfeb(year, month, day, hour, minute, second) ==
    LET janfeb == IF month < 2 THEN 1 ELSE 0
        days == day - 32075
                + ((1461 * (year + 4800 - janfeb)) \div 4)
                + ((367 * (month - 2 + janfeb * 12)) \div 12)
                - ((3 * ((year + 4900 - janfeb) \div 100)) \div 4)
    IN  JD(days, second + minute * TicksPerMinute + hour * TicksPerHour
                 - (TicksPerDay \div 2))

julian_date(year, month, day, hour, minute, second) ==
    LET janfeb == IF month < 3 THEN 1 ELSE 0
        days == day - 32075
                + ((1461 * (year + 4800 - janfeb)) \div 4)
                + ((367 * (month - 2 + janfeb * 12)) \div 12)
                - ((3 * ((year + 4900 - janfeb) \div 100)) \div 4)
    IN  JD(days, second + minute * TicksPerMinute + hour * TicksPerHour
                 - (TicksPerDay \div 2))

\* jd_integer is whatever number the caller passes: the arithmetic below is
\* Python's, so a fractional part of jd_integer survives into day.
calendar_date(jd_integer) ==
    LET k0 == PlusDays(jd_integer, 68569)
        n  == MulFloorDiv(4, k0, 146097)
        k1 == PlusDays(k0, - ((146097 * n + 3) \div 4))
        m  == MulFloorDiv(4000, PlusDays(k1, 1), 1461001)
        k2 == PlusDays(k1, - ((1461 * m) \div 4) + 31)
        month0 == MulFloorDiv(80, k2, 2447)
        day == PlusDays(k2, - ((2447 * month0) \div 80))
        k3 == month0 \div 11
        month == month0 + 2 - 12 * k3
        year == 100 * (n - 49) + m + k3
    IN  <<year, month, day>>

\* Returns <<year, month, day, hour>>, hour in ticks of the day.  int(jd) is
\* the floor for the positive dates of the model.
cal_date(jd) ==
    LET jd1 == Plus(jd, TicksPerDay \div 2)
        hour == jd1[2]
        k0 == jd1[1] + 68569
        n  == (4 * k0) \div 146097
        k1 == k0 - ((146097 * n + 3) \div 4)
        m  == (4000 * (k1 + 1)) \div 1461001
        k2 == k1 - ((1461 * m) \div 4) + 31
        month0 == (80 * k2) \div 2447
        day == k2 - ((2447 * month0) \div 80)
        k3 == month0 \div 11
        month == month0 + 2 - 12 * k3
        year == 100 * (n - 49) + m + k3
    IN  <<year, month, day, hour>>

----------------------------------------------------------------------------
(* Python lists and numpy arrays *)

\* list.insert(index, value) on a list held as a sequence; index counts from 0
insert(list, index, value) ==
    SubSeq(list, 1, index) \o <<value>> \o SubSeq(list, index + 1, Len(list))

\* numpy.array(list): indexed from 0
array(list) == [k \in 0 .. Len(list) - 1 |-> list[k + 1]]

\* numpy.searchsorted(a, v, 'right') for an ascending a: the number of
\* elements of a that are <= v
searchsorted(a, v) == Cardinality({k \in DOMAIN a : Leq(a[k], v)})

----------------------------------------------------------------------------
(* The leap-second table *)

\* The first lines of leapsec.dat, as <<field 5: Julian date, field 7: TAI-UTC>>
LeapFile ==
    << <<JD(2441317, TicksPerDay \div 2), 10>>,    \* 1972 JAN  1
       <<JD(2441499, TicksPerDay \div 2), 11>>,    \* 1972 JUL  1
       <<JD(2441683, TicksPerDay \div 2), 12>>,    \* 1973 JAN  1
       <<JD(2442048, TicksPerDay \div 2), 13>>,    \* 1974 JAN  1
       <<JD(2442413, TicksPerDay \div 2), 14>> >>  \* 1975 JAN  1

\* A variant a plausible slip produces: the +inf sentinel and the second
\* copy of the first offset are both missing.
usno_leapseconds_short(lines) ==
    LET dates0   == [k \in 1 .. Len(lines) |-> lines[k][1]]
        offsets0 == [k \in 1 .. Len(lines) |-> lines[k][2]]
    IN  <<array(insert(dates0, 0, NegInf)),
          array(insert(offsets0, 0, offsets0[1]))>>

usno_leapseconds(lines) ==
    LET dates0   == [k \in 1 .. Len(lines) |-> lines[k][1]]
        offsets0 == [k \in 1 .. Len(lines) |-> lines[k][2]]
        dates    == Append(insert(dates0, 0, NegInf), PosInf)
        offsets1 == insert(offsets0, 0, offsets0[1])
        offsets  == insert(offsets1, 1, offsets1[1])
    IN  <<array(dates), array(offsets)>>

\* self.cache.run(usno_leapseconds): the table built from the cached file
cache_run == usno_leapseconds(leapsec)

\* A variant that searches left-biased: a query equal to a table date gets
\* the offset of the interval before it.
utc_index_left(leap_dates, j) == Cardinality({k \in DOMAIN leap_dates : Lt(leap_dates[k], j)})

\* _utc_to_tai, line 367: the index of the UTC date j in the table
utc_index(leap_dates, j) == searchsorted(leap_dates, j)

_utc_to_tai(leap_dates, leap_offsets, year, month, day, hour, minute, second) ==
    LET j == julian_date(year, month, day, hour, minute, 0)
        i == utc_index(leap_dates, j)
    IN  Plus(j, second + leap_offsets[i] * TicksPerSecond)

\* _utc, line 194: the table dates expressed in TAI
leap_reverse_dates(leap_dates, leap_offsets) ==
    [k \in DOMAIN leap_dates |-> Plus(leap_dates[k], leap_offsets[k] * TicksPerSecond)]

\* A variant that forgets the reversal and searches the UTC dates with a TAI
\* value.
tai_index_unreversed(leap_dates, leap_offsets, tai_) == searchsorted(leap_dates, tai_)

\* _utc, line 195: the index of the TAI date in the reversed table
tai_index(leap_dates, leap_offsets, tai_) ==
    searchsorted(leap_reverse_dates(leap_dates, leap_offsets), tai_)

----------------------------------------------------------------------------
(* Time-scale computations of JulianDate *)

\* A variant without the leap-second correction of the seconds field.
_utc_tuple_no_leap(self_tai, offset) ==
    LET tai_ == Plus(self_tai, offset)
        leap_dates   == cache_run[1]
        leap_offsets == cache_run[2]
        i  == tai_index(leap_dates, leap_offsets, tai_)
        j  == Plus(tai_, - leap_offsets[i] * TicksPerSecond)
        jh == Plus(j, TicksPerDay \div 2)
        ymd   == calendar_date(Whole(jh[1]))
        hfrac == jh[2] % TicksPerHour
    IN  <<ymd[1], ymd[2], ymd[3][1], jh[2] \div TicksPerHour,
          hfrac \div TicksPerMinute, hfrac % TicksPerMinute>>

\* The tuple _utc computes from self.tai: (year, month, day, hour, minute,
\* second), second in ticks.  whole is an int, so calendar_date's day is one.
_utc_tuple(self_tai, offset) ==
    LET tai_ == Plus(self_tai, offset)
        leap_dates   == cache_run[1]
        leap_offsets == cache_run[2]
        i  == tai_index(leap_dates, leap_offsets, tai_)
        j  == Plus(tai_, - leap_offsets[i] * TicksPerSecond)
        jh == Plus(j, TicksPerDay \div 2)
        whole    == jh[1]
        fraction == jh[2]
        ymd   == calendar_date(Whole(whole))
        h     == fraction \div TicksPerHour
        hfrac == fraction % TicksPerHour
        m     == hfrac \div TicksPerMinute
        s     == hfrac % TicksPerMinute
        is_leap_second == Lt(j, leap_dates[i - 1])
    IN  <<ymd[1], ymd[2], ymd[3][1], h, m,
          s + (IF is_leap_second THEN TicksPerSecond ELSE 0)>>

\* __getattr__('tai')
getattr_tai(self_tt) == Plus(self_tt, - tt_minus_tai)

\* __getattr__('utc')
getattr_utc(self_tai) ==
    LET leap_dates   == cache_run[1]
        leap_offsets == cache_run[2]
        i == tai_index(leap_dates, leap_offsets, self_tai)
        j == Plus(self_tai, - leap_offsets[i] * TicksPerSecond)
        c == cal_date(j)
        h     == c[4] \div TicksPerHour
        hfrac == c[4] % TicksPerHour
    IN  <<c[1], c[2], c[3], h, hfrac \div TicksPerMinute, hfrac % TicksPerMinute>>

\* The sine series is not evaluated: its value at jd_tdb is an uninterpreted
\* term, a pure function of its argument.
tdb_minus_tt(jd_tdb) == <<"tdb_minus_tt", jd_tdb>>

\* __getattr__('tdb'): tt + tdb_minus_tt(tt) / DAY_S, kept as a term
getattr_tdb(self_tt) == <<"+", self_tt, tdb_minus_tt(self_tt)>>

\* __getattr__('ut1'); delta_t in ticks
getattr_ut1(self_tt, self_delta_t) == Plus(self_tt, - self_delta_t)

----------------------------------------------------------------------------
(* Bounds and inputs *)

MaxLines  == 2      \* lines of leapsec.dat the cache may hold: 1 .. MaxLines
MaxPlaces == 3      \* utc_iso(places): places in 0 .. MaxPlaces

Files == {SubSeq(LeapFile, 1, n) : n \in 1 .. MaxLines}

\* The calendar day that ends at each date of LeapFile, and the day it starts
DayBefore == << <<1971, 12, 31>>, <<1972, 6, 30>>, <<1972, 12, 31>>,
                <<1973, 12, 31>>, <<1974, 12, 31>> >>
DayOf     == << <<1972, 1, 1>>, <<1972, 7, 1>>, <<1973, 1, 1>>,
                <<1974, 1, 1>>, <<1975, 1, 1>> >>

\* Line k of the file records a leap second: the offset rises by one second
IsLeap(lines, k) == k \in 2 .. Len(lines) /\ lines[k][2] = lines[k - 1][2] + 1

\* x, a TAI date, lies inside the second inserted before the date of line k
InLeapSecond(lines, k, x) ==
    /\ IsLeap(lines, k)
    /\ Leq(Plus(lines[k][1], lines[k - 1][2] * TicksPerSecond), x)
    /\ Lt(x, Plus(lines[k][1], lines[k][2] * TicksPerSecond))

\* Instants, in ticks relative to the TAI date of a table entry
Deltas == {-2001, -2000, -1001, -1000, -1, 0, 1}

TaiInputs(lines) ==
    {Plus(lines[k][1], lines[k][2] * TicksPerSecond + d) :
        k \in 1 .. Len(lines), d \in Deltas}
    \cup {PlusDays(lines[k][1], 40) : k \in 1 .. Len(lines)}

TtInputs(lines) ==
    {Plus(lines[k][1], lines[k][2] * TicksPerSecond + d + tt_minus_tai) :
        k \in 1 .. Len(lines), d \in {-2000, -1, 0}}

\* Valid UTC tuples: seconds in [0, 60), and in [60, 61) in the last minute of
\* a day that ends in a leap second of the table
UtcInputs(lines) ==
    {<<day[1], day[2], day[3], hm[1], hm[2], sec>> :
        day \in {DayBefore[k] : k \in 1 .. Len(lines)}
                \cup {DayOf[k] : k \in 1 .. Len(lines)} \cup {<<1972, 3, 4>>},
        hm  \in {<<0, 0>>, <<23, 59>>},
        sec \in {0, 60001, 119999}}
    \cup {<<DayBefore[k][1], DayBefore[k][2], DayBefore[k][3], 23, 59, sec>> :
        k \in {n \in 1 .. Len(lines) : IsLeap(lines, n)},
        sec \in {120000, 120001, 121999}}

\* delta_t, in ticks, and the cache argument
DeltaTs == {0, 84368}
Caches  == {None, <<"cache">>}

\* The keyword arguments of a call of JulianDate(...): no scale at all, one
\* scale alone over all its inputs, or several scales at once over a few
InitArgs(lines) ==
    LET U == {<<1972, 3, 4, 12, 30, 60000>>}
        A == {PlusDays(lines[1][1], 40), PlusDays(lines[1][1], 41)}
        T == {Plus(PlusDays(lines[1][1], 40), tt_minus_tai)}
        Scales == [utc : UtcInputs(lines), tai : {None}, tt : {None}]
                  \cup [utc : {None}, tai : TaiInputs(lines), tt : {None}]
                  \cup [utc : {None}, tai : {None}, tt : TtInputs(lines)]
                  \cup [utc : U \cup {None}, tai : A \cup {None}, tt : T \cup {None}]
        Rest == {r \in [delta_t : DeltaTs, cache : Caches] :
                    (r.delta_t = 0) = (r.cache = None)}
    IN  {[utc |-> k.utc, tai |-> k.tai, tt |-> k.tt,
          delta_t |-> r.delta_t, cache |-> r.cache] : k \in Scales, r \in Rest}
        \cup [utc : {None}, tai : {None}, tt : {None},
              delta_t : DeltaTs, cache : Caches]

----------------------------------------------------------------------------
(* JulianDate.__init__ *)

ValueError == <<"ValueError", "you must supply either utc, tai, or tt when building a JulianDate">>

\* lines 103-116: the tai an instance is built with
init_tai(u, a) ==
    IF u # None /\ a = None
    THEN _utc_to_tai(cache_run[1], cache_run[2], u[1], u[2], u[3], u[4], u[5], u[6])
    ELSE a

\* A variant that forgets to derive tt from tai
init_tt_forgets(a, t) == t

\* lines 118-121: the tt an instance is built with
init_tt(a, t) == IF a # None /\ t = None THEN Plus(a, tt_minus_tai) ELSE t

__init__(kw) ==
    LET tai_ == init_tai(kw.utc, kw.tai)
        tt_  == init_tt(tai_, kw.tt)
    IN  /\ args' = kw
        /\ op' = [name |-> "__init__", offset |-> 0]
        /\ delta_t' = kw.delta_t
        /\ utc' = kw.utc
        /\ tai' = tai_
        /\ tt' = tt_
        /\ IF tt_ = None
           THEN phase' = "raised" /\ ret' = ValueError
           ELSE phase' = "live" /\ ret' = None
        /\ UNCHANGED <<leapsec, tdb, ut1, lk, cal, pc, prog, loc>>

----------------------------------------------------------------------------
(* Attribute reads: the instance dict first, __getattr__ on a miss *)

Others == <<leapsec, phase, args, delta_t, lk, cal, pc, prog, loc>>

\* self.tt: always in the instance dict of a live instance
get_tt ==
    /\ phase = "live"
    /\ op' = [name |-> "tt", offset |-> 0]
    /\ ret' = tt
    /\ UNCHANGED <<utc, tai, tt, tdb, ut1>>
    /\ UNCHANGED Others

\* The value of the expression self.tai, which stores it on a miss
self_tai == IF tai = None THEN getattr_tai(tt) ELSE tai

get_tai ==
    /\ phase = "live"
    /\ op' = [name |-> "tai", offset |-> 0]
    /\ tai' = self_tai
    /\ ret' = tai'
    /\ UNCHANGED <<utc, tt, tdb, ut1>>
    /\ UNCHANGED Others

get_utc ==
    /\ phase = "live"
    /\ op' = [name |-> IF utc = None THEN "utc (first read)" ELSE "utc", offset |-> 0]
    /\ IF utc = None
       THEN tai' = self_tai /\ utc' = getattr_utc(self_tai)
       ELSE UNCHANGED <<tai, utc>>
    /\ ret' = utc'
    /\ UNCHANGED <<tt, tdb, ut1>>
    /\ UNCHANGED Others

get_tdb ==
    /\ phase = "live"
    /\ op' = [name |-> "tdb", offset |-> 0]
    /\ tdb' = IF tdb = None THEN getattr_tdb(tt) ELSE tdb
    /\ ret' = tdb'
    /\ UNCHANGED <<utc, tai, tt, ut1>>
    /\ UNCHANGED Others

get_ut1 ==
    /\ phase = "live"
    /\ op' = [name |-> "ut1", offset |-> 0]
    /\ ut1' = IF ut1 = None THEN getattr_ut1(tt, delta_t) ELSE ut1
    /\ ret' = ut1'
    /\ UNCHANGED <<utc, tai, tt, tdb>>
    /\ UNCHANGED Others

----------------------------------------------------------------------------
(* _utc and the formatting methods built on it *)

\* The state change of a call self._utc(offset), whoever makes it
call_utc(offset) ==
    /\ phase = "live"
    /\ tai' = self_tai
    /\ utc' = _utc_tuple(self_tai, offset)
    /\ UNCHANGED <<tt, tdb, ut1>>
    /\ UNCHANGED Others

_utc(offset) ==
    /\ call_utc(offset)
    /\ op' = [name |-> "_utc", offset |-> offset]
    /\ ret' = utc'

RECURSIVE Pow10(_)
Pow10(n) == IF n = 0 THEN 1 ELSE 10 * Pow10(n - 1)

\* utc_iso, line 154: _half_second / power_of_ten, cut to whole ticks
iso_offset(places) == IF places # 0 THEN _half_second \div Pow10(places) ELSE _half_second

\* The numbers utc_iso formats: %d truncates each to an integer
utc_iso(places) ==
    /\ call_utc(iso_offset(places))
    /\ op' = [name |-> "utc_iso", offset |-> iso_offset(places)]
    /\ LET S == utc'[6] \div TicksPerSecond
           F == utc'[6] % TicksPerSecond
       IN  ret' = IF places # 0
                  THEN <<utc'[1], utc'[2], utc'[3], utc'[4], utc'[5], S,
                         (F * Pow10(places)) \div TicksPerSecond>>
                  ELSE <<utc'[1], utc'[2], utc'[3], utc'[4], utc'[5], S>>

\* time.strftime(format, tup) for the 9-tuple built from the integer parts
utc_strftime(format) ==
    /\ call_utc(_half_second)
    /\ op' = [name |-> "utc_strftime", offset |-> _half_second]
    /\ ret' = <<format, <<utc'[1], utc'[2], utc'[3], utc'[4], utc'[5],
                          utc'[6] \div TicksPerSecond, 0, 0, 0>> >>

\* datetime(...): the constructor refuses a second outside 0 .. 59
datetime(year, month, day, hour, minute, second, microsecond) ==
    IF second \in 0 .. 59
    THEN <<"datetime", year, month, day, hour, minute, second, microsecond>>
    ELSE <<"ValueError", "second must be in 0..59">>

\* The value utc_datetime returns once _utc has stored u
utc_datetime_value(u) ==
    LET second   == u[6] \div TicksPerSecond
        fraction == u[6] % TicksPerSecond
        milli    == ((fraction * 1000) \div TicksPerSecond) * 1000
    IN  datetime(u[1], u[2], u[3], u[4], u[5], second, milli)

utc_datetime ==
    /\ call_utc(_half_millisecond)
    /\ op' = [name |-> "utc_datetime", offset |-> _half_millisecond]
    /\ ret' = utc_datetime_value(utc')

\* The conversion to tz is the timezone library's: kept as a term
astimezone(tz) ==
    /\ call_utc(_half_millisecond)
    /\ op' = [name |-> "astimezone", offset |-> _half_millisecond]
    /\ ret' = LET dt == utc_datetime_value(utc')
              IN  IF dt[1] = "ValueError" THEN dt ELSE <<"astimezone", tz, dt>>

----------------------------------------------------------------------------
(* The instance machine *)

NoThreads == [t \in {} |-> None]

Init ==
    /\ leapsec \in Files
    /\ phase = "new"
    /\ args = None
    /\ utc = None /\ tai = None /\ tt = None /\ tdb = None /\ ut1 = None
    /\ delta_t = None
    /\ op = [name |-> "none", offset |-> 0]
    /\ ret = None
    /\ lk = None /\ cal = None
    /\ pc = NoThreads /\ prog = NoThreads /\ loc = NoThreads

\* _utc(offset) called directly: no bias, or thirty seconds to display minutes
Offsets == {0, 30 * TicksPerSecond}

Next ==
    \/ phase = "new" /\ \E kw \in InitArgs(leapsec) : __init__(kw)
    \/ get_tt
    \/ get_tai
    \/ get_utc
    \/ get_tdb
    \/ get_ut1
    \/ \E offset \in Offsets : _utc(offset)
    \/ \E places \in 0 .. MaxPlaces : utc_iso(places)
    \/ \E format \in {"%H:%M:%S"} : utc_strftime(format)
    \/ utc_datetime
    \/ \E tz \in {"UTC", "EST"} : astimezone(tz)

Spec == Init /\ [][Next]_vars

----------------------------------------------------------------------------
(* Claims about the instance machine *)

\* The methods that decompose through _utc
UtcCallers == {"_utc", "utc_iso", "utc_strftime", "utc_datetime", "astimezone"}

\* C1: on a constructed instance each scale field (tai, utc, tdb, ut1) changes
\* at most once, from unset to a value: a field that holds a value is left
\* with that value by every operation.
C1_ScaleFieldsWriteOnce ==
    [][phase = "live" =>
          /\ (tai # None => tai' = tai)
          /\ (utc # None => utc' = utc)
          /\ (tdb # None => tdb' = tdb)
          /\ (ut1 # None => ut1' = ut1)]_vars

\* C2: when the TAI value plus the rounding bias lies inside the second
\* inserted before a table date, _utc yields the calendar day that ends at
\* that date, 23:59, and seconds in [60, 61); utc_iso(0) renders second 60.
C2_LeapSecondRendered ==
    \A k \in 1 .. Len(leapsec) :
        (/\ phase = "live"
         /\ op.name \in UtcCallers
         /\ InLeapSecond(leapsec, k, Plus(tai, op.offset)))
        => /\ <<utc[1], utc[2], utc[3]>> = DayBefore[k]
           /\ utc[4] = 23 /\ utc[5] = 59
           /\ utc[6] >= 60 * TicksPerSecond /\ utc[6] < 61 * TicksPerSecond
           /\ (op.name = "utc_iso" /\ op.offset = _half_second
                 => ret = <<DayBefore[k][1], DayBefore[k][2], DayBefore[k][3],
                            23, 59, 60>>)

C2_Witness ==
    /\ phase = "live"
    /\ op.name = "utc_iso" /\ op.offset = _half_second
    /\ \E k \in 1 .. Len(leapsec) : InLeapSecond(leapsec, k, Plus(tai, op.offset))
    /\ ret = <<1972, 6, 30, 23, 59, 60>>

\* C3: on an instance built from tai or tt only, the first read of utc
\* returns the leap-second-aware decomposition of tai with zero bias.
C3_FirstUtcReadIsDecomposition ==
    (/\ phase = "live"
     /\ args.utc = None
     /\ op.name = "utc (first read)")
    => ret = _utc_tuple(tai, 0)

\* C4: the scales a constructed instance holds agree: tai is tt minus
\* 32.184 s, and utc is the UTC reading of that tai under the table.
C4_ScalesAgree ==
    phase = "live" =>
        /\ (tai # None => tai = Plus(tt, - tt_minus_tai))
        /\ (utc # None => utc = _utc_tuple(self_tai, 0))

\* C5: a construction with none of utc, tai, tt raises the error 'you must
\* supply either utc, tai, or tt', whatever delta_t and cache are; with one
\* of them supplied it does not raise and the instance has its tt set.
C5_ConstructionError ==
    phase # "new" =>
        IF args.utc = None /\ args.tai = None /\ args.tt = None
        THEN phase = "raised" /\ ret = ValueError
        ELSE phase = "live" /\ tt # None

C5_Witness ==
    /\ phase = "raised"
    /\ ret = ValueError
    /\ args.delta_t # 0
    /\ args.cache # None

\* C7: an instance built from a valid UTC tuple alone returns that tuple
\* from _utc(0).
C7_UtcRoundTrip ==
    (/\ phase = "live"
     /\ args.utc # None /\ args.tai = None /\ args.tt = None
     /\ op.name = "_utc" /\ op.offset = 0)
    => ret = args.utc

C7_Witness ==
    /\ phase = "live"
    /\ args.utc = <<1972, 6, 30, 23, 59, 121999>>
    /\ args.tai = None /\ args.tt = None
    /\ op.name = "_utc" /\ op.offset = 0
    /\ ret = args.utc

----------------------------------------------------------------------------
(* The two table lookups, applied to a table and a query date *)

\* a[i] as Python evaluates it: <<value>>, or <<>> for an IndexError; a
\* negative index counts from the end
Item(a, i) ==
    LET n == Cardinality(DOMAIN a)
    IN  IF i \in 0 .. n - 1 THEN <<a[i]>>
        ELSE IF i \in -n .. -1 THEN <<a[n + i]>>
        ELSE <<>>

\* The table of the specification's example: [[-inf, J1, J2, inf],
\* [O0, O0, O1, O1]] with the dates and offsets of the first two file lines
ExampleTable ==
    <<array(<<NegInf, LeapFile[1][1], LeapFile[2][1], PosInf>>),
      array(<<LeapFile[1][2], LeapFile[1][2], LeapFile[2][2], LeapFile[2][2]>>)>>

\* Query dates: around every finite date of the table, in UTC and in TAI
QueryDeltas ==
    {-TicksPerDay, -TicksPerMinute, -TicksPerSecond, -1, 0, 1,
     10 * TicksPerSecond - 1, 10 * TicksPerSecond, 11 * TicksPerSecond - 1,
     11 * TicksPerSecond, 12 * TicksPerSecond, TicksPerDay}

Queries(dates) ==
    {Plus(dates[k], d) : k \in {n \in DOMAIN dates : ~IsInf(dates[n])}, d \in QueryDeltas}

InstanceIdle ==
    /\ phase = "new"
    /\ args = None
    /\ utc = None /\ tai = None /\ tt = None /\ tdb = None /\ ut1 = None
    /\ delta_t = None
    /\ op = [name |-> "none", offset |-> 0]
    /\ ret = None

InitLookup ==
    /\ leapsec \in Files
    /\ InstanceIdle
    /\ \/ lk = [source |-> "usno_leapseconds", lines |-> leapsec,
                dates |-> cache_run[1], offsets |-> cache_run[2],
                dir |-> "none", q |-> None, i |-> 0, offset |-> None, prev |-> None]
       \/ /\ Len(leapsec) = 2
          /\ lk = [source |-> "caller", lines |-> leapsec,
                   dates |-> ExampleTable[1], offsets |-> ExampleTable[2],
                   dir |-> "none", q |-> None, i |-> 0, offset |-> None, prev |-> None]
    /\ cal = None
    /\ pc = NoThreads /\ prog = NoThreads /\ loc = NoThreads

\* _utc_to_tai, lines 367-368, for the UTC date j
lookup_utc_to_tai(j) ==
    LET i == utc_index(lk.dates, j)
    IN  /\ lk' = [lk EXCEPT !.dir = "utc_to_tai", !.q = j, !.i = i,
                            !.offset = Item(lk.offsets, i), !.prev = None]
        /\ UNCHANGED <<leapsec, phase, args, utc, tai, tt, tdb, ut1, delta_t,
                       op, ret, cal, pc, prog, loc>>

\* _utc, lines 194-196 and 202, for the TAI date t
lookup_tai_to_utc(t) ==
    LET i == tai_index(lk.dates, lk.offsets, t)
    IN  /\ lk' = [lk EXCEPT !.dir = "tai_to_utc", !.q = t, !.i = i,
                            !.offset = Item(lk.offsets, i),
                            !.prev = Item(lk.dates, i - 1)]
        /\ UNCHANGED <<leapsec, phase, args, utc, tai, tt, tdb, ut1, delta_t,
                       op, ret, cal, pc, prog, loc>>

NextLookup ==
    \/ \E j \in Queries(lk.dates) : lookup_utc_to_tai(j)
    \/ \E t \in Queries(lk.dates) : lookup_tai_to_utc(t)

SpecLookup == InitLookup /\ [][NextLookup]_vars

\* C6, as stated: on the table [[-inf, J1, J2, inf], [O0, O0, O1, O1]] the
\* UTC-to-TAI lookup returns O0 for a query date just below J2 and O1 for a
\* query date at or above J2.
C6_ExampleTableLookup ==
    (lk.source = "caller" /\ lk.dir = "utc_to_tai")
    => /\ (Leq(LeapFile[1][1], lk.q) /\ Lt(lk.q, LeapFile[2][1])
             => lk.offset = <<LeapFile[1][2]>>)
       /\ (Leq(LeapFile[2][1], lk.q) => lk.offset = <<LeapFile[2][2]>>)

\* C6, amended: on the table usno_leapseconds builds from the two lines
\* (J1, O0), (J2, O1), which is [[-inf, J1, J2, inf], [O0, O0, O0, O1]], the
\* UTC-to-TAI lookup returns O0 for every query date below J2 and O1 for
\* every query date at or above J2.
C6_BuiltTableLookup ==
    (lk.source = "usno_leapseconds" /\ Len(lk.lines) = 2)
    => /\ lk.dates = array(<<NegInf, LeapFile[1][1], LeapFile[2][1], PosInf>>)
       /\ lk.offsets = array(<<LeapFile[1][2], LeapFile[1][2],
                               LeapFile[1][2], LeapFile[2][2]>>)
       /\ (lk.dir = "utc_to_tai" /\ Lt(lk.q, LeapFile[2][1])
             => lk.offset = <<LeapFile[1][2]>>)
       /\ (lk.dir = "utc_to_tai" /\ Leq(LeapFile[2][1], lk.q)
             => lk.offset = <<LeapFile[2][2]>>)

C6_Witness ==
    /\ lk.source = "usno_leapseconds" /\ Len(lk.lines) = 2
    /\ lk.dir = "utc_to_tai"
    /\ lk.q = Plus(LeapFile[2][1], -1)
    /\ lk.offset = <<LeapFile[1][2]>>

\* C10: on a table built by usno_leapseconds from N >= 1 lines both lookups
\* stay inside the table for every finite query: the index is a valid index
\* of the offsets row and, for the TAI-to-UTC lookup, index - 1 is a valid
\* index of the dates row; a date before the first recorded entry gets the
\* first recorded offset, a date at or after the last recorded entry the last.
C10_LookupsStayInsideTable ==
    (lk.source = "usno_leapseconds" /\ lk.dir # "none")
    => LET N     == Len(lk.lines)
           first == lk.lines[1]
           last  == lk.lines[N]
           \* the entry's date on the scale of the query
           At(line) == IF lk.dir = "utc_to_tai" THEN line[1]
                       ELSE Plus(line[1], line[2] * TicksPerSecond)
       IN  /\ lk.i \in DOMAIN lk.offsets
           /\ lk.offset # <<>>
           /\ (lk.dir = "tai_to_utc" => lk.i - 1 \in DOMAIN lk.dates /\ lk.prev # <<>>)
           /\ (Lt(lk.q, At(first)) => lk.offset = <<first[2]>>)
           /\ (Leq(At(last), lk.q) => lk.offset = <<last[2]>>)

C10_Witness ==
    /\ lk.source = "usno_leapseconds" /\ lk.dir = "tai_to_utc"
    /\ Len(lk.lines) = 2
    /\ Leq(Plus(lk.lines[2][1], lk.lines[2][2] * TicksPerSecond), lk.q)
    /\ lk.i = 3
    /\ lk.offset = <<lk.lines[2][2]>>

----------------------------------------------------------------------------
(* The calendar functions, applied to every date of a range of years *)

MinYear == 1800
MaxYear == 2200

\* The proleptic Gregorian calendar, stated independently of the code
IsLeapYear(y) == y % 4 = 0 /\ (y % 100 # 0 \/ y % 400 = 0)
DaysInMonth(y, m) ==
    IF m = 2 THEN (IF IsLeapYear(y) THEN 29 ELSE 28)
    ELSE IF m \in {4, 6, 9, 11} THEN 30 ELSE 31

InitCal ==
    /\ leapsec = LeapFile
    /\ InstanceIdle
    /\ lk = None
    /\ \E y \in MinYear .. MaxYear, m \in 1 .. 12 :
          \E d \in 1 .. DaysInMonth(y, m) :
             cal = [year |-> y, month |-> m, day |-> d, step |-> "args", out |-> None]
    /\ pc = NoThreads /\ prog = NoThreads /\ loc = NoThreads

\* calendar_date(julian_date(y, m, d, 0, 0, 0))
calendar_of_julian ==
    /\ cal.step = "args"
    /\ cal' = [cal EXCEPT !.step = "calendar_date(julian_date)",
                          !.out = calendar_date(julian_date(cal.year, cal.month, cal.day, 0, 0, 0))]
    /\ UNCHANGED <<leapsec, phase, args, utc, tai, tt, tdb, ut1, delta_t,
                   op, ret, lk, pc, prog, loc>>

\* As _utc composes them, lines 197-199: whole, fraction = divmod(j + 0.5, 1.0);
\* calendar_date(whole.astype(int))
calendar_of_whole ==
    /\ cal.step = "args"
    /\ LET j  == julian_date(cal.year, cal.month, cal.day, 0, 0, 0)
           jh == Plus(j, TicksPerDay \div 2)
       IN  cal' = [cal EXCEPT !.step = "calendar_date(whole)",
                              !.out = calendar_date(Whole(jh[1]))]
    /\ UNCHANGED <<leapsec, phase, args, utc, tai, tt, tdb, ut1, delta_t,
                   op, ret, lk, pc, prog, loc>>

NextCal ==
    \/ calendar_of_julian
    \/ calendar_of_whole

SpecCal == InitCal /\ [][NextCal]_vars

\* C8, as stated: calendar_date(julian_date(y, m, d, 0, 0, 0)) is (y, m, d)
\* for every valid date of the years 1800 .. 2200.
C8_CalendarOfJulianDate ==
    cal.step = "calendar_date(julian_date)"
    => cal.out = <<cal.year, cal.month, Whole(cal.day)>>

\* C8, amended: calendar_date applied to the integer Julian day of
\* julian_date(y, m, d, 0, 0, 0), which is floor(julian_date(...) + 0.5), is
\* (y, m, d) for every valid date of the years 1800 .. 2200.
C8_CalendarOfWholeJulianDay ==
    cal.step = "calendar_date(whole)"
    => cal.out = <<cal.year, cal.month, Whole(cal.day)>>

C8_Witness ==
    /\ cal.step = "calendar_date(whole)"
    /\ cal.year = 2000 /\ cal.month = 2 /\ cal.day = 29
    /\ cal.out = <<2000, 2, Whole(29)>>

----------------------------------------------------------------------------
(* Threads sharing one instance *)

NThreads == 2
Threads == 1 .. NThreads

\* What a thread may run: an attribute read or a formatting call, with the
\* offset the call hands to _utc
ThreadOps ==
    {[name |-> "tai", offset |-> 0], [name |-> "tdb", offset |-> 0],
     [name |-> "ut1", offset |-> 0], [name |-> "utc", offset |-> 0],
     [name |-> "utc_iso", offset |-> iso_offset(0)],
     [name |-> "utc_iso", offset |-> iso_offset(MaxPlaces)],
     [name |-> "utc_strftime", offset |-> _half_second],
     [name |-> "utc_datetime", offset |-> _half_millisecond]}

\* The instances the threads share: built from tt inside and outside a leap
\* second, and from a UTC tuple
ThreadArgs ==
    LET T == {Plus(LeapFile[2][1], LeapFile[2][2] * TicksPerSecond + d + tt_minus_tai) :
                d \in {-1001, 1}}
    IN  [utc : {None}, tai : {None}, tt : T, delta_t : {84368}, cache : {None}]
        \cup [utc : {<<1972, 3, 4, 12, 30, 60000>>}, tai : {None}, tt : {None},
              delta_t : {0}, cache : {None}]

InitThreads ==
    /\ leapsec = SubSeq(LeapFile, 1, 2)
    /\ phase = "live"
    /\ args \in ThreadArgs
    /\ utc = args.utc
    /\ tai = init_tai(args.utc, args.tai)
    /\ tt = init_tt(tai, args.tt)
    /\ tdb = None /\ ut1 = None
    /\ delta_t = args.delta_t
    /\ op = [name |-> "none", offset |-> 0]
    /\ ret = None
    /\ lk = None /\ cal = None
    /\ pc = [t \in Threads |-> "start"]
    /\ prog \in [Threads -> ThreadOps]
    /\ loc = [t \in Threads |-> None]

ThreadFrame == <<leapsec, phase, args, tt, delta_t, op, ret, lk, cal, prog>>

\* The instance-dict lookup that starts an attribute read: a hit returns the
\* stored value, a miss enters __getattr__, which computes the value
t_lookup(t) ==
    /\ pc[t] = "start"
    /\ prog[t].name \in {"tai", "tdb", "ut1"}
    /\ LET held == CASE prog[t].name = "tai" -> tai
                     [] prog[t].name = "tdb" -> tdb
                     [] prog[t].name = "ut1" -> ut1
           new  == CASE prog[t].name = "tai" -> getattr_tai(tt)
                     [] prog[t].name = "tdb" -> getattr_tdb(tt)
                     [] prog[t].name = "ut1" -> getattr_ut1(tt, delta_t)
       IN  IF held # None
           THEN pc' = [pc EXCEPT ![t] = "done"] /\ loc' = [loc EXCEPT ![t] = held]
           ELSE pc' = [pc EXCEPT ![t] = "store"] /\ loc' = [loc EXCEPT ![t] = new]
    /\ UNCHANGED <<utc, tai, tdb, ut1>>
    /\ UNCHANGED ThreadFrame

\* self.X = X at the end of __getattr__: one atomic write
t_store(t) ==
    /\ pc[t] = "store"
    /\ tai' = IF prog[t].name = "tai" THEN loc[t] ELSE tai
    /\ tdb' = IF prog[t].name = "tdb" THEN loc[t] ELSE tdb
    /\ ut1' = IF prog[t].name = "ut1" THEN loc[t] ELSE ut1
    /\ pc' = [pc EXCEPT ![t] = "done"]
    /\ UNCHANGED <<utc, loc>>
    /\ UNCHANGED ThreadFrame

\* The lookup of utc: a hit returns it, a miss enters __getattr__('utc')
t_lookup_utc(t) ==
    /\ pc[t] = "start"
    /\ prog[t].name = "utc"
    /\ IF utc # None
       THEN pc' = [pc EXCEPT ![t] = "done"] /\ loc' = [loc EXCEPT ![t] = utc]
       ELSE pc' = [pc EXCEPT ![t] = "read_tai"] /\ UNCHANGED loc
    /\ UNCHANGED <<utc, tai, tdb, ut1>>
    /\ UNCHANGED ThreadFrame

\* A formatting method enters _utc
t_enter_utc(t) ==
    /\ pc[t] = "start"
    /\ prog[t].name \in UtcCallers
    /\ pc' = [pc EXCEPT ![t] = "read_tai"]
    /\ UNCHANGED <<utc, tai, tdb, ut1, loc>>
    /\ UNCHANGED ThreadFrame

\* tai = self.tai inside _utc and __getattr__('utc')
t_read_tai(t) ==
    /\ pc[t] = "read_tai"
    /\ IF tai # None
       THEN pc' = [pc EXCEPT ![t] = "store_utc"] /\ loc' = [loc EXCEPT ![t] = tai]
       ELSE /\ pc' = [pc EXCEPT ![t] = "store_tai"]
            /\ loc' = [loc EXCEPT ![t] = getattr_tai(tt)]
    /\ UNCHANGED <<utc, tai, tdb, ut1>>
    /\ UNCHANGED ThreadFrame

t_store_tai(t) ==
    /\ pc[t] = "store_tai"
    /\ tai' = loc[t]
    /\ pc' = [pc EXCEPT ![t] = "store_utc"]
    /\ UNCHANGED <<utc, tdb, ut1, loc>>
    /\ UNCHANGED ThreadFrame

\* self.utc = utc = (...): the tuple is computed from the thread's own tai
t_store_utc(t) ==
    /\ pc[t] = "store_utc"
    /\ utc' = IF prog[t].name = "utc" THEN getattr_utc(loc[t])
              ELSE _utc_tuple(loc[t], prog[t].offset)
    /\ pc' = [pc EXCEPT ![t] = "done"]
    /\ UNCHANGED <<tai, tdb, ut1, loc>>
    /\ UNCHANGED ThreadFrame

NextThreads ==
    \E t \in Threads :
        \/ t_lookup(t)
        \/ t_store(t)
        \/ t_lookup_utc(t)
        \/ t_enter_utc(t)
        \/ t_read_tai(t)
        \/ t_store_tai(t)
        \/ t_store_utc(t)

SpecThreads == InitThreads /\ [][NextThreads]_vars

\* The cached fields after operation o runs alone on an instance whose
\* cached fields are f
RunAlone(f, o) ==
    LET tai_ == IF f.tai = None THEN getattr_tai(tt) ELSE f.tai
    IN  CASE o.name = "tai" -> [f EXCEPT !.tai = tai_]
          [] o.name = "tdb" -> [f EXCEPT !.tdb = IF f.tdb = None THEN getattr_tdb(tt) ELSE f.tdb]
          [] o.name = "ut1" -> [f EXCEPT !.ut1 = IF f.ut1 = None THEN getattr_ut1(tt, delta_t) ELSE f.ut1]
          [] o.name = "utc" -> IF f.utc = None
                               THEN [f EXCEPT !.tai = tai_, !.utc = getattr_utc(tai_)]
                               ELSE f
          [] OTHER -> [f EXCEPT !.tai = tai_, !.utc = _utc_tuple(tai_, o.offset)]

\* The cached fields after the threads' operations run one after another in
\* the order given
RECURSIVE RunInOrder(_, _)
RunInOrder(f, order) ==
    IF order = <<>> THEN f
    ELSE RunInOrder(RunAlone(f, prog[Head(order)]), Tail(order))

Orders == {o \in [Threads -> Threads] : \A a, b \in Threads : o[a] = o[b] => a = b}

\* C9: when every thread has finished, each cached scale field holds the
\* value some sequential execution of the same operations leaves in it.
C9_InterleavingsMatchSequential ==
    (\A t \in Threads : pc[t] = "done")
    => \E o \in Orders :
          [utc |-> utc, tai |-> tai, tdb |-> tdb, ut1 |-> ut1]
          = RunInOrder([utc |-> args.utc, tai |-> init_tai(args.utc, args.tai),
                        tdb |-> None, ut1 |-> None], o)

============================================================================
